---- MODULE Spec2Model ----
(***************************************************************************)
(* useDeviceDetect: the React hook that classifies the client as mobile,   *)
(* tablet or desktop, in its two rule sets (src/unnamed/part_000 and       *)
(* src/unnamed/part_001), and its consumer DeviceSpecificContent.          *)
(*                                                                         *)
(* Strings are sequences of one-character strings, so that toLowerCase,    *)
(* String.includes and RegExp.test are computed on the characters.         *)
(* State updates made inside one handler are applied in call order and     *)
(* committed together when the handler returns (React's batching of the    *)
(* updates of one effect or one event handler); `published` is the value   *)
(* the hook returned at the last render.                                   *)
(***************************************************************************)
EXTENDS Integers, Sequences, FiniteSets, TLC

\* ------------------------------------------------------------------ strings

Upper == <<"A", "B", "C", "D", "E", "F", "G", "H", "I", "J", "K", "L", "M",
           "N", "O", "P", "Q", "R", "S", "T", "U", "V", "W", "X", "Y", "Z">>
Lower == <<"a", "b", "c", "d", "e", "f", "g", "h", "i", "j", "k", "l", "m",
           "n", "o", "p", "q", "r", "s", "t", "u", "v", "w", "x", "y", "z">>
Digits == {"0", "1", "2", "3", "4", "5", "6", "7", "8", "9"}

LowerLetters == {Lower[i] : i \in 1..Len(Lower)}

LowerChar(c) ==
    IF \E i \in 1..Len(Upper) : Upper[i] = c
    THEN Lower[CHOOSE i \in 1..Len(Upper) : Upper[i] = c]
    ELSE c

\* String.prototype.toLowerCase
ToLowerCase(s) == [i \in 1..Len(s) |-> LowerChar(s[i])]

\* the positions at which sub occurs in s
Occurrences(s, sub) ==
    {i \in 1..(Len(s) - Len(sub) + 1) : SubSeq(s, i, i + Len(sub) - 1) = sub}

\* String.prototype.includes
Includes(s, sub) == Occurrences(s, sub) # {}

\* RegExp.test of an alternation of literals, lit1|lit2|...
TestAny(s, lits) == \E l \in lits : Includes(s, l)

\* RegExp.test of a literal followed by one character of a class, lit[class]
\* (lit[class]+ matches exactly when lit[class] does)
TestFollowedBy(s, lit, class) ==
    \E i \in Occurrences(s, lit) :
        /\ i + Len(lit) <= Len(s)
        /\ s[i + Len(lit)] \in class

kw_touch == <<"t", "o", "u", "c", "h">>
kw_android == <<"a", "n", "d", "r", "o", "i", "d">>
kw_ipad == <<"i", "p", "a", "d">>
kw_mobile == <<"m", "o", "b", "i", "l", "e">>
kw_mobi == <<"m", "o", "b", "i">>
kw_iphone == <<"i", "p", "h", "o", "n", "e">>
kw_ipod == <<"i", "p", "o", "d">>
kw_blackberry == <<"b", "l", "a", "c", "k", "b", "e", "r", "r", "y">>
kw_opera_mini == <<"o", "p", "e", "r", "a", " ", "m", "i", "n", "i">>
kw_iemobile == <<"i", "e", "m", "o", "b", "i", "l", "e">>
kw_wpdesktop == <<"w", "p", "d", "e", "s", "k", "t", "o", "p">>
kw_samsung == <<"s", "a", "m", "s", "u", "n", "g">>
kw_sm_t == <<"s", "m", "-", "t">>
kw_sm_x70 == <<"s", "m", "-", "x", "7", "0">>
kw_sm_x80 == <<"s", "m", "-", "x", "8", "0">>
kw_kf == <<"k", "f">>
kw_playbook == <<"p", "l", "a", "y", "b", "o", "o", "k">>
kw_silk == <<"s", "i", "l", "k">>
kw_tablet == <<"t", "a", "b", "l", "e", "t">>
kw_kindle == <<"k", "i", "n", "d", "l", "e">>
kw_galaxy_tab == <<"g", "a", "l", "a", "x", "y", "-", "t", "a", "b">>

\* ------------------------------------------------------- environment inputs

\* the rule set in use: "A" is src/unnamed/part_000, "B" is src/unnamed/part_001
Variants == {"A", "B"}

\* window.navigator.userAgent, as the browser reports it (mixed case)
UserAgentNames ==
    {"ua_chrome", "ua_touch", "ua_android", "ua_mobile", "ua_ipad",
     "ua_kindle_fire", "ua_galaxy_tab", "ua_opera_mobi", "ua_wpdesktop",
     "ua_kindle"}

RawUserAgent(n) ==
    CASE n = "ua_chrome" -> <<"C", "h", "r", "o", "m", "e">>
      [] n = "ua_touch" -> <<"N", "T", ";", " ", "T", "o", "u", "c", "h">>
      [] n = "ua_android" -> <<"A", "n", "d", "r", "o", "i", "d", " ", "9">>
      [] n = "ua_mobile" -> <<"M", "o", "b", "i", "l", "e">>
      [] n = "ua_ipad" -> <<"i", "P", "a", "d">>
      [] n = "ua_kindle_fire" -> <<"K", "F", "T", "T">>
      [] n = "ua_galaxy_tab" -> <<"S", "M", "-", "T", "5", "1", "0">>
      [] n = "ua_opera_mobi" -> <<"O", "p", "e", "r", "a", " ", "M", "o", "b", "i">>
      [] n = "ua_wpdesktop" -> <<"W", "P", "D", "e", "s", "k", "t", "o", "p">>
      [] n = "ua_kindle" -> <<"K", "i", "n", "d", "l", "e">>

\* UAParser's os.name, cpu.architecture and device.type ("undefined" when
\* the parser recognises nothing)
OsNames == {"Windows", "Mac OS", "Linux", "Android", "iOS", "undefined"}
CpuArchitectures == {"amd64", "x86_64", "undefined"}
DeviceTypes == {"mobile", "tablet", "undefined"}

\* which touch indicator of the host is positive, if any
TouchIndicators == {"none", "ontouchstart", "maxTouchPoints", "msMaxTouchPoints"}

\* window.innerWidth: the values on both sides of the two thresholds
Widths == {599, 600, 1199, 1200}

Envs ==
    [userAgent : UserAgentNames, osName : OsNames, cpuArchitecture : CpuArchitectures,
     deviceType : DeviceTypes, touch : TouchIndicators, innerWidth : Widths]

\* the two viewport thresholds of detectDevice and setDevice
MobileMaxWidth == 600
TabletMaxWidth == 1200

\* ------------------------------------------------------------ detectDevice

\* const userAgent = window.navigator.userAgent.toLowerCase()
UserAgentOf(n) == ToLowerCase(RawUserAgent(n))

\* the string tests detectDevice makes on userAgent
Patterns ==
    {"touch", "android", "ipad", "mobileA", "mobileB", "samsung", "s8s9",
     "kindleFire", "tabletA", "tabletB"}

Test(p, ua) ==
    CASE p = "touch" -> Includes(ua, kw_touch)
      [] p = "android" -> Includes(ua, kw_android)
      [] p = "ipad" -> Includes(ua, kw_ipad)
      [] p = "mobileA" ->
            TestAny(ua, {kw_mobile, kw_mobi, kw_iphone, kw_ipod, kw_android,
                         kw_blackberry, kw_opera_mini, kw_iemobile})
      [] p = "mobileB" ->
            TestAny(ua, {kw_mobile, kw_iphone, kw_ipod, kw_android,
                         kw_blackberry, kw_opera_mini, kw_iemobile, kw_wpdesktop})
      [] p = "samsung" -> TestAny(ua, {kw_samsung, kw_sm_t})
      [] p = "s8s9" ->
            TestFollowedBy(ua, kw_sm_x70, Digits) \/ TestFollowedBy(ua, kw_sm_x80, Digits)
      [] p = "kindleFire" -> TestFollowedBy(ua, kw_kf, LowerLetters)
      [] p = "tabletA" ->
            TestAny(ua, {kw_ipad, kw_playbook, kw_silk, kw_tablet, kw_kindle,
                         kw_galaxy_tab})
      [] p = "tabletB" -> TestAny(ua, {kw_tablet, kw_ipad, kw_playbook, kw_silk})

\* the tests of every user agent of the model, computed once
UaTests == [n \in UserAgentNames |-> [p \in Patterns |-> Test(p, UserAgentOf(n))]]

Matches(e, p) == UaTests[e.userAgent][p]

\* 'ontouchstart' in window || maxTouchPoints > 0 || msMaxTouchPoints > 0
IsTouchDevice(e) ==
    \/ e.touch = "ontouchstart"
    \/ e.touch = "maxTouchPoints"
    \/ e.touch = "msMaxTouchPoints"

IsDefinitelyDesktopA(e) ==
    \/ (e.osName = "Windows" /\ (~Matches(e, "touch") \/ ~IsTouchDevice(e)))
    \/ (e.osName = "Mac OS" /\ ~IsTouchDevice(e))
    \/ (e.osName = "Linux" /\ ~Matches(e, "android") /\ ~IsTouchDevice(e))
    \/ e.cpuArchitecture = "amd64"
    \/ e.cpuArchitecture = "x86_64"

\* the rule set of part_001 without its x86_64 test
IsDefinitelyDesktopB_NoX86(e) ==
    \/ (e.osName = "Windows" /\ ~Matches(e, "touch"))
    \/ (e.osName = "Mac OS" /\ ~IsTouchDevice(e))
    \/ (e.osName = "Linux" /\ ~Matches(e, "android"))
    \/ e.cpuArchitecture = "amd64"

IsDefinitelyDesktopB(e) ==
    \/ (e.osName = "Windows" /\ ~Matches(e, "touch"))
    \/ (e.osName = "Mac OS" /\ ~IsTouchDevice(e))
    \/ (e.osName = "Linux" /\ ~Matches(e, "android"))
    \/ e.cpuArchitecture = "amd64"
    \/ e.cpuArchitecture = "x86_64"

IsDefinitelyDesktop(v, e) ==
    IF v = "A" THEN IsDefinitelyDesktopA(e) ELSE IsDefinitelyDesktopB(e)

IsMobileDeviceA(e) ==
    IF IsDefinitelyDesktopA(e) THEN FALSE
    ELSE IF e.deviceType = "mobile" THEN TRUE
    ELSE IF Matches(e, "mobileA") THEN TRUE
    ELSE IF e.osName = "Android" /\ e.innerWidth < MobileMaxWidth THEN TRUE
    ELSE IF e.osName = "iOS" /\ ~Matches(e, "ipad") THEN TRUE
    ELSE e.innerWidth < MobileMaxWidth

\* the mobile cascade of part_001 without its keyword test
IsMobileDeviceB_NoKeywords(e) ==
    IF IsDefinitelyDesktopB(e) THEN FALSE
    ELSE IF e.deviceType = "mobile" THEN TRUE
    ELSE IF e.osName = "Android" /\ e.innerWidth < MobileMaxWidth THEN TRUE
    ELSE IF e.osName = "iOS" /\ ~Matches(e, "ipad") THEN TRUE
    ELSE e.innerWidth < MobileMaxWidth

IsMobileDeviceB(e) ==
    IF IsDefinitelyDesktopB(e) THEN FALSE
    ELSE IF e.deviceType = "mobile" THEN TRUE
    ELSE IF Matches(e, "mobileB") THEN TRUE
    ELSE IF e.osName = "Android" /\ e.innerWidth < MobileMaxWidth THEN TRUE
    ELSE IF e.osName = "iOS" /\ ~Matches(e, "ipad") THEN TRUE
    ELSE e.innerWidth < MobileMaxWidth

\* the tablet cascade of part_000 without its first line, the desktop exit
IsTabletDeviceA_NoDesktopExit(e) ==
    IF e.deviceType = "tablet" THEN TRUE
    ELSE IF Matches(e, "samsung") THEN Matches(e, "s8s9") \/ Matches(e, "samsung")
    ELSE IF Matches(e, "kindleFire") THEN TRUE
    ELSE IF Matches(e, "tabletA") THEN TRUE
    ELSE IF e.osName = "Android" /\ e.innerWidth >= MobileMaxWidth
                                 /\ e.innerWidth < TabletMaxWidth THEN TRUE
    ELSE IF e.osName = "iOS" /\ Matches(e, "ipad") THEN TRUE
    ELSE IF e.osName = "Windows" /\ Matches(e, "touch") THEN TRUE
    ELSE e.innerWidth >= MobileMaxWidth /\ e.innerWidth < TabletMaxWidth

\* the tablet cascade of part_000 without its Kindle Fire rule
IsTabletDeviceA_NoKindleFire(e) ==
    IF IsDefinitelyDesktopA(e) THEN FALSE
    ELSE IF e.deviceType = "tablet" THEN TRUE
    ELSE IF Matches(e, "samsung") THEN Matches(e, "s8s9") \/ Matches(e, "samsung")
    ELSE IF Matches(e, "tabletA") THEN TRUE
    ELSE IF e.osName = "Android" /\ e.innerWidth >= MobileMaxWidth
                                 /\ e.innerWidth < TabletMaxWidth THEN TRUE
    ELSE IF e.osName = "iOS" /\ Matches(e, "ipad") THEN TRUE
    ELSE IF e.osName = "Windows" /\ Matches(e, "touch") THEN TRUE
    ELSE e.innerWidth >= MobileMaxWidth /\ e.innerWidth < TabletMaxWidth

IsTabletDeviceA(e) ==
    IF IsDefinitelyDesktopA(e) THEN FALSE
    ELSE IF e.deviceType = "tablet" THEN TRUE
    ELSE IF Matches(e, "samsung") THEN Matches(e, "s8s9") \/ Matches(e, "samsung")
    ELSE IF Matches(e, "kindleFire") THEN TRUE
    ELSE IF Matches(e, "tabletA") THEN TRUE
    ELSE IF e.osName = "Android" /\ e.innerWidth >= MobileMaxWidth
                                 /\ e.innerWidth < TabletMaxWidth THEN TRUE
    ELSE IF e.osName = "iOS" /\ Matches(e, "ipad") THEN TRUE
    ELSE IF e.osName = "Windows" /\ Matches(e, "touch") THEN TRUE
    ELSE e.innerWidth >= MobileMaxWidth /\ e.innerWidth < TabletMaxWidth

IsTabletDeviceB(e) ==
    IF IsDefinitelyDesktopB(e) THEN FALSE
    ELSE IF e.deviceType = "tablet" THEN TRUE
    ELSE IF Matches(e, "tabletB") THEN TRUE
    ELSE IF e.osName = "Android" /\ e.innerWidth >= MobileMaxWidth
                                 /\ e.innerWidth < TabletMaxWidth THEN TRUE
    ELSE IF e.osName = "iOS" /\ Matches(e, "ipad") THEN TRUE
    ELSE IF e.osName = "Windows" /\ Matches(e, "touch") THEN TRUE
    ELSE e.innerWidth >= MobileMaxWidth /\ e.innerWidth < TabletMaxWidth

\* the object detectDevice returns
DetectDevice(v, e) ==
    [isMobileDevice |-> IF v = "A" THEN IsMobileDeviceA(e) ELSE IsMobileDeviceB(e),
     isTabletDevice |-> IF v = "A" THEN IsTabletDeviceA(e) ELSE IsTabletDeviceB(e),
     isDefinitelyDesktop |-> IsDefinitelyDesktop(v, e)]

\* ------------------------------------------------------------ the hook

\* the number of times the consuming component is mounted in one run
MaxSessions == 2

VARIABLES
    variant,            \* the rule set of the build
    env,                \* the browser state detectDevice and setDevice read
    phase,              \* "rendered" (first render done, effect pending),
                        \* "active" (effect ran), "torn" (cleanup ran)
    session,            \* which mount of the component this instance is
    initialDeviceType,  \* initialDeviceType.current
    state,              \* the useState cells isMobile, isTablet, isLoading
    published,          \* the object the hook returned at the last render
    listeners,          \* the listeners registered on window
    lastEvent,          \* the last step taken
    ran,                \* whether the last step ran this instance's setDevice
    twin,               \* a second instance of the hook, where there is one
    previousAnchor      \* the anchor the previous instance of the component had

vars ==
    <<variant, env, phase, session, initialDeviceType, state, published,
      listeners, lastEvent, ran, twin, previousAnchor>>

\* the cells with a mobile-first default for isMobile
InitialState_MobileFirst == [isMobile |-> TRUE, isTablet |-> FALSE, isLoading |-> TRUE]

\* useState(false), useState(false), useState(true)
InitialState == [isMobile |-> FALSE, isTablet |-> FALSE, isLoading |-> TRUE]

\* the returned object with isDesktop computed from isMobile alone
UseDeviceDetectReturn_DesktopIgnoresTablet(st) ==
    [isMobile |-> st.isMobile,
     isTablet |-> st.isTablet,
     isMobileOrTablet |-> st.isMobile \/ st.isTablet,
     isDesktop |-> ~st.isMobile,
     isLoading |-> st.isLoading]

\* the object useDeviceDetect returns for the cells st
UseDeviceDetectReturn(st) ==
    [isMobile |-> st.isMobile,
     isTablet |-> st.isTablet,
     isMobileOrTablet |-> st.isMobile \/ st.isTablet,
     isDesktop |-> ~st.isMobile /\ ~st.isTablet,
     isLoading |-> st.isLoading]

\* what DeviceSpecificContent renders for the hook's object p
DeviceSpecificContent(p) ==
    IF p.isLoading THEN "Loading"
    ELSE IF p.isMobileOrTablet THEN (IF p.isMobile THEN "mobile" ELSE "tablet")
    ELSE IF p.isDesktop THEN "desktop"
    ELSE "Device type not detected"

\* the anchor written on every run, without the null test
AnchorOf_Rewritten(current, det) ==
    IF det.isDefinitelyDesktop THEN "desktop"
    ELSE IF det.isTabletDevice THEN "tablet" ELSE "mobile"

\* the anchor also written when a later run detects a desktop
AnchorOf_PromoteDesktop(current, det) ==
    IF current = "null" \/ det.isDefinitelyDesktop
    THEN IF det.isDefinitelyDesktop THEN "desktop"
         ELSE IF det.isTabletDevice THEN "tablet" ELSE "mobile"
    ELSE current

\* the anchor with the mobile flag tested before the tablet flag
AnchorOf_MobileFirst(current, det) ==
    IF current = "null"
    THEN IF det.isDefinitelyDesktop THEN "desktop"
         ELSE IF det.isMobileDevice THEN "mobile" ELSE "tablet"
    ELSE current

\* the write of initialDeviceType.current: only while it is null
AnchorOf(current, det) ==
    IF current = "null"
    THEN IF det.isDefinitelyDesktop THEN "desktop"
         ELSE IF det.isTabletDevice THEN "tablet" ELSE "mobile"
    ELSE current

\* the flags without the desktop branch: the width decides for every anchor
FlagsFor_NoDesktopAnchor(anchor, w) ==
    IF w < MobileMaxWidth THEN [isMobile |-> TRUE, isTablet |-> FALSE]
    ELSE IF w >= MobileMaxWidth /\ w < TabletMaxWidth
         THEN [isMobile |-> FALSE, isTablet |-> TRUE]
    ELSE [isMobile |-> FALSE, isTablet |-> FALSE]

\* the flags with the first threshold inclusive
FlagsFor_InclusiveThreshold(anchor, w) ==
    IF anchor = "desktop" THEN [isMobile |-> FALSE, isTablet |-> FALSE]
    ELSE IF w <= MobileMaxWidth THEN [isMobile |-> TRUE, isTablet |-> FALSE]
    ELSE IF w > MobileMaxWidth /\ w < TabletMaxWidth
         THEN [isMobile |-> FALSE, isTablet |-> TRUE]
    ELSE [isMobile |-> FALSE, isTablet |-> FALSE]

\* the flags with a tablet anchor kept as the category: never mobile
FlagsFor_AnchorCategory(anchor, w) ==
    IF anchor = "desktop" THEN [isMobile |-> FALSE, isTablet |-> FALSE]
    ELSE IF w < MobileMaxWidth
         THEN [isMobile |-> anchor # "tablet", isTablet |-> anchor = "tablet"]
    ELSE IF w >= MobileMaxWidth /\ w < TabletMaxWidth
         THEN [isMobile |-> FALSE, isTablet |-> TRUE]
    ELSE [isMobile |-> FALSE, isTablet |-> FALSE]

\* the flags setDevice decides on, from the anchor and window.innerWidth
FlagsFor(anchor, w) ==
    IF anchor = "desktop" THEN [isMobile |-> FALSE, isTablet |-> FALSE]
    ELSE IF w < MobileMaxWidth THEN [isMobile |-> TRUE, isTablet |-> FALSE]
    ELSE IF w >= MobileMaxWidth /\ w < TabletMaxWidth
         THEN [isMobile |-> FALSE, isTablet |-> TRUE]
    ELSE [isMobile |-> FALSE, isTablet |-> FALSE]

\* the setter calls without the closing setLoading(false)
SetterCalls_NoLoadingReset(anchor, w) ==
    << <<"isLoading", TRUE>>,
       <<"isMobile", FlagsFor(anchor, w).isMobile>>,
       <<"isTablet", FlagsFor(anchor, w).isTablet>> >>

\* the setter calls with a flag set only when it is true, never cleared
SetterCalls_NeverCleared(anchor, w) ==
    << <<"isLoading", TRUE>> >>
    \o (IF FlagsFor(anchor, w).isMobile THEN << <<"isMobile", TRUE>> >> ELSE <<>>)
    \o (IF FlagsFor(anchor, w).isTablet THEN << <<"isTablet", TRUE>> >> ELSE <<>>)
    \o << <<"isLoading", FALSE>> >>

\* the setter calls of one run of setDevice, in call order
SetterCalls(anchor, w) ==
    << <<"isLoading", TRUE>>,
       <<"isMobile", FlagsFor(anchor, w).isMobile>>,
       <<"isTablet", FlagsFor(anchor, w).isTablet>>,
       <<"isLoading", FALSE>> >>

\* the cells after the queued setter calls are applied in order
RECURSIVE ApplyUpdates(_, _)
ApplyUpdates(st, calls) ==
    IF calls = <<>> THEN st
    ELSE ApplyUpdates([st EXCEPT ![Head(calls)[1]] = Head(calls)[2]], Tail(calls))

\* one run of setDevice on the instance (anchor, st) in the environment e
SetDevice(v, anchor, st, e) ==
    LET det == DetectDevice(v, e)
        a == AnchorOf(anchor, det)
    IN [anchor |-> a, state |-> ApplyUpdates(st, SetterCalls(a, e.innerWidth))]

EventTypes == {"resize", "orientationchange"}

\* the listeners the effect of instance s adds, and its cleanup removes
AddedListeners(s) == {[type |-> t, fn |-> s] : t \in EventTypes}
\* a cleanup that removes the resize listener only
RemovedListeners_ResizeOnly(s) == {[type |-> "resize", fn |-> s]}

RemovedListeners(s) == {[type |-> t, fn |-> s] : t \in EventTypes}

\* a hook instance that has rendered once in the environment e
RenderedInstance(e) ==
    [phase |-> "rendered", env |-> e, anchor |-> "null", state |-> InitialState,
     published |-> UseDeviceDetectReturn(InitialState)]

\* the signals of an unrecognised client: every parser field undefined, no
\* keyword in the user agent, no touch indicator
UnknownClient ==
    [userAgent |-> "ua_chrome", osName |-> "undefined", cpuArchitecture |-> "undefined",
     deviceType |-> "undefined", touch |-> "none", innerWidth |-> 1200]

\* no second instance: the page holds one consumer of the hook
NoTwin == [RenderedInstance(UnknownClient) EXCEPT !.phase = "absent"]

TypeOK ==
    /\ variant \in Variants
    /\ env \in Envs
    /\ phase \in {"rendered", "active", "torn"}
    /\ session \in 1..MaxSessions
    /\ initialDeviceType \in {"null", "desktop", "tablet", "mobile"}
    /\ state \in [isMobile : BOOLEAN, isTablet : BOOLEAN, isLoading : BOOLEAN]
    /\ published = UseDeviceDetectReturn(state)
    /\ listeners \subseteq [type : EventTypes, fn : 0..MaxSessions]
    /\ lastEvent \in {"render", "mount", "unmount", "env", "twinmount"} \cup EventTypes
    /\ ran \in BOOLEAN
    /\ twin.phase \in {"absent", "rendered", "active"}
    /\ twin.env \in Envs
    /\ twin.anchor \in {"null", "desktop", "tablet", "mobile"}
    /\ twin.published = UseDeviceDetectReturn(twin.state)
    /\ previousAnchor \in {"null", "desktop", "tablet", "mobile"}

\* the component has rendered once: the cells hold their initial values and
\* the effect has not run yet
Init ==
    /\ variant \in Variants
    /\ env \in Envs
    /\ phase = "rendered"
    /\ session = 1
    /\ initialDeviceType = "null"
    /\ state = InitialState
    /\ published = UseDeviceDetectReturn(InitialState)
    /\ listeners = {}
    /\ lastEvent = "render"
    /\ ran = FALSE
    /\ twin = NoTwin
    /\ previousAnchor = "null"

\* the effect body: setDevice(), then the two addEventListener calls
Activate ==
    /\ phase = "rendered"
    /\ LET r == SetDevice(variant, initialDeviceType, state, env)
       IN /\ initialDeviceType' = r.anchor
          /\ state' = r.state
          /\ published' = UseDeviceDetectReturn(r.state)
    /\ listeners' = listeners \cup AddedListeners(session)
    /\ phase' = "active"
    /\ lastEvent' = "mount"
    /\ ran' = TRUE
    /\ UNCHANGED <<variant, env, session, twin, previousAnchor>>

\* window dispatches an event of type t after the viewport took width w:
\* every listener registered for t runs
Dispatch(t, w) ==
    LET e == [env EXCEPT !.innerWidth = w]
        handlers == {l \in listeners : l.type = t}
        r == SetDevice(variant, initialDeviceType, state, e)
    IN /\ env' = e
       /\ ran' = (handlers # {})
       /\ IF \E l \in handlers : l.fn = session
          THEN /\ initialDeviceType' = r.anchor
               /\ state' = r.state
               /\ published' = UseDeviceDetectReturn(r.state)
          ELSE UNCHANGED <<initialDeviceType, state, published>>
       /\ lastEvent' = t
       /\ UNCHANGED <<variant, phase, session, listeners, twin, previousAnchor>>

Resize == \E w \in Widths : Dispatch("resize", w)

OrientationChange == \E w \in Widths : Dispatch("orientationchange", w)

\* the effect's cleanup, run when the component unmounts
Teardown ==
    /\ phase = "active"
    /\ listeners' = listeners \ RemovedListeners(session)
    /\ phase' = "torn"
    /\ lastEvent' = "unmount"
    /\ ran' = FALSE
    /\ UNCHANGED <<variant, env, session, initialDeviceType, state, published,
                   twin, previousAnchor>>

\* the component is mounted again: a new instance with new cells and a new ref
Remount ==
    /\ phase = "torn"
    /\ session < MaxSessions
    /\ session' = session + 1
    /\ initialDeviceType' = "null"
    /\ state' = InitialState
    /\ published' = UseDeviceDetectReturn(InitialState)
    /\ phase' = "rendered"
    /\ lastEvent' = "render"
    /\ ran' = FALSE
    /\ UNCHANGED <<variant, env, listeners, twin, previousAnchor>>

\* the browser's signals change without an event the hook listens to
EnvChange ==
    /\ \/ \E x \in UserAgentNames : env' = [env EXCEPT !.userAgent = x]
       \/ \E x \in OsNames : env' = [env EXCEPT !.osName = x]
       \/ \E x \in CpuArchitectures : env' = [env EXCEPT !.cpuArchitecture = x]
       \/ \E x \in DeviceTypes : env' = [env EXCEPT !.deviceType = x]
       \/ \E x \in TouchIndicators : env' = [env EXCEPT !.touch = x]
    /\ env' # env
    /\ lastEvent' = "env"
    /\ ran' = FALSE
    /\ UNCHANGED <<variant, phase, session, initialDeviceType, state, published,
                   listeners, twin, previousAnchor>>

Next ==
    \/ Activate
    \/ Resize
    \/ OrientationChange
    \/ Teardown
    \/ Remount
    \/ EnvChange

Spec == Init /\ [][Next]_vars

\* ------------------------------------------- two sessions, side by side

\* the signals of a Kindle Fire e-reader and of a phone
EReaderClient ==
    [userAgent |-> "ua_kindle_fire", osName |-> "Android", cpuArchitecture |-> "undefined",
     deviceType |-> "tablet", touch |-> "maxTouchPoints", innerWidth |-> 1200]
PhoneClient ==
    [userAgent |-> "ua_mobile", osName |-> "iOS", cpuArchitecture |-> "undefined",
     deviceType |-> "mobile", touch |-> "ontouchstart", innerWidth |-> 1200]

\* the non-desktop clients the second session runs on, at every width
ReferenceClients ==
    {[c EXCEPT !.innerWidth = w] :
        c \in {EReaderClient, PhoneClient, UnknownClient}, w \in Widths}

\* one run of setDevice on the instance record inst in the environment e
RunInstance(v, inst, e) ==
    LET r == SetDevice(v, inst.anchor, inst.state, e)
    IN [inst EXCEPT !.env = e, !.anchor = r.anchor, !.state = r.state,
                    !.published = UseDeviceDetectReturn(r.state)]

\* two sessions of the same build in two browsers: any client, and a
\* reference client at the same viewport width
InitPair ==
    /\ variant \in Variants
    /\ env \in Envs
    /\ phase = "rendered"
    /\ session = 1
    /\ initialDeviceType = "null"
    /\ state = InitialState
    /\ published = UseDeviceDetectReturn(InitialState)
    /\ listeners = {}
    /\ lastEvent = "render"
    /\ ran = FALSE
    /\ \E c \in ReferenceClients :
          /\ c.innerWidth = env.innerWidth
          /\ twin = RenderedInstance(c)
    /\ previousAnchor = "null"

\* the effect body, in both sessions
PairActivate ==
    /\ phase = "rendered"
    /\ twin.phase = "rendered"
    /\ LET r == SetDevice(variant, initialDeviceType, state, env)
       IN /\ initialDeviceType' = r.anchor
          /\ state' = r.state
          /\ published' = UseDeviceDetectReturn(r.state)
    /\ twin' = [RunInstance(variant, twin, twin.env) EXCEPT !.phase = "active"]
    /\ listeners' = listeners \cup AddedListeners(session)
    /\ phase' = "active"
    /\ lastEvent' = "mount"
    /\ ran' = TRUE
    /\ UNCHANGED <<variant, env, session, previousAnchor>>

\* both viewports take width w and both windows dispatch an event of type t
PairDispatch(t, w) ==
    LET e == [env EXCEPT !.innerWidth = w]
        te == [twin.env EXCEPT !.innerWidth = w]
        handlers == {l \in listeners : l.type = t}
        r == SetDevice(variant, initialDeviceType, state, e)
    IN /\ env' = e
       /\ ran' = (handlers # {})
       /\ IF \E l \in handlers : l.fn = session
          THEN /\ initialDeviceType' = r.anchor
               /\ state' = r.state
               /\ published' = UseDeviceDetectReturn(r.state)
          ELSE UNCHANGED <<initialDeviceType, state, published>>
       /\ twin' = IF twin.phase = "active" THEN RunInstance(variant, twin, te)
                  ELSE [twin EXCEPT !.env = te]
       /\ lastEvent' = t
       /\ UNCHANGED <<variant, phase, session, listeners, previousAnchor>>

PairResize == \E w \in Widths : PairDispatch("resize", w)

PairOrientationChange == \E w \in Widths : PairDispatch("orientationchange", w)

\* the second browser's signals change to those of another reference client
TwinEnvChange ==
    /\ \E c \in ReferenceClients :
          /\ c.innerWidth = twin.env.innerWidth
          /\ c # twin.env
          /\ twin' = [twin EXCEPT !.env = c]
    /\ lastEvent' = "env"
    /\ ran' = FALSE
    /\ UNCHANGED <<variant, env, phase, session, initialDeviceType, state, published,
                   listeners, previousAnchor>>

NextPair ==
    \/ PairActivate
    \/ PairResize
    \/ PairOrientationChange
    \/ EnvChange
    \/ TwinEnvChange

SpecPair == InitPair /\ [][NextPair]_vars

\* ------------------------------------- two instances in one window

\* the signals of a desktop client
DesktopClient ==
    [userAgent |-> "ua_chrome", osName |-> "Mac OS", cpuArchitecture |-> "undefined",
     deviceType |-> "undefined", touch |-> "none", innerWidth |-> 1200]

\* the clients the shared window reports, at every width
SharedEnvs ==
    {[c EXCEPT !.innerWidth = w] :
        c \in {DesktopClient, EReaderClient, PhoneClient, UnknownClient}, w \in Widths}

\* the page renders two consumers of the hook: each instance has its own
\* cells and its own ref, and both read the same window
InitShared ==
    /\ variant \in Variants
    /\ env \in SharedEnvs
    /\ phase = "rendered"
    /\ session = 1
    /\ initialDeviceType = "null"
    /\ state = InitialState
    /\ published = UseDeviceDetectReturn(InitialState)
    /\ listeners = {}
    /\ lastEvent = "render"
    /\ ran = FALSE
    /\ twin = RenderedInstance(env)
    /\ previousAnchor = "null"

\* the effect body of the second instance (its setDevice is listener fn 0)
TwinActivate ==
    /\ twin.phase = "rendered"
    /\ twin' = [RunInstance(variant, twin, env) EXCEPT !.phase = "active"]
    /\ listeners' = listeners \cup AddedListeners(0)
    /\ lastEvent' = "twinmount"
    /\ ran' = FALSE
    /\ UNCHANGED <<variant, env, phase, session, initialDeviceType, state, published,
                   previousAnchor>>

\* the shared window dispatches an event of type t after the viewport took
\* width w: every listener registered for t runs, of either instance
SharedDispatch(t, w) ==
    LET e == [env EXCEPT !.innerWidth = w]
        handlers == {l \in listeners : l.type = t}
        r == SetDevice(variant, initialDeviceType, state, e)
    IN /\ env' = e
       /\ ran' = (\E l \in handlers : l.fn # 0)
       /\ IF \E l \in handlers : l.fn = session
          THEN /\ initialDeviceType' = r.anchor
               /\ state' = r.state
               /\ published' = UseDeviceDetectReturn(r.state)
          ELSE UNCHANGED <<initialDeviceType, state, published>>
       /\ twin' = IF \E l \in handlers : l.fn = 0 THEN RunInstance(variant, twin, e)
                  ELSE [twin EXCEPT !.env = e]
       /\ lastEvent' = t
       /\ UNCHANGED <<variant, phase, session, listeners, previousAnchor>>

SharedResize == \E w \in Widths : SharedDispatch("resize", w)

SharedOrientationChange == \E w \in Widths : SharedDispatch("orientationchange", w)

\* a remount with the ref held outside the instance: the anchor survives
SharedRemount_KeepAnchor ==
    /\ phase = "torn"
    /\ session < MaxSessions
    /\ session' = session + 1
    /\ previousAnchor' = initialDeviceType
    /\ initialDeviceType' = initialDeviceType
    /\ state' = InitialState
    /\ published' = UseDeviceDetectReturn(InitialState)
    /\ phase' = "rendered"
    /\ lastEvent' = "render"
    /\ ran' = FALSE
    /\ UNCHANGED <<variant, env, listeners, twin>>

\* the first component is mounted again: a new instance with new cells and a
\* new ref; previousAnchor keeps what the instance it replaces had
SharedRemount ==
    /\ phase = "torn"
    /\ session < MaxSessions
    /\ session' = session + 1
    /\ previousAnchor' = initialDeviceType
    /\ initialDeviceType' = "null"
    /\ state' = InitialState
    /\ published' = UseDeviceDetectReturn(InitialState)
    /\ phase' = "rendered"
    /\ lastEvent' = "render"
    /\ ran' = FALSE
    /\ UNCHANGED <<variant, env, listeners, twin>>

\* the shared window's signals change without an event the hook listens to
SharedEnvChange ==
    /\ \E c \in SharedEnvs :
          /\ c.innerWidth = env.innerWidth
          /\ c # env
          /\ env' = c
          /\ twin' = [twin EXCEPT !.env = c]
    /\ lastEvent' = "env"
    /\ ran' = FALSE
    /\ UNCHANGED <<variant, phase, session, initialDeviceType, state, published,
                   listeners, previousAnchor>>

NextShared ==
    \/ Activate
    \/ TwinActivate
    \/ SharedResize
    \/ SharedOrientationChange
    \/ Teardown
    \/ SharedRemount
    \/ SharedEnvChange

SpecShared == InitShared /\ [][NextShared]_vars

\* ------------------------------------------------------------ properties

NonDesktopAnchors == {"tablet", "mobile"}

\* the last step was a resize or orientation-change event that ran setDevice,
\* so env is exactly what that evaluation read
LaterEvaluation == ran /\ lastEvent \in EventTypes

\* C1: once the anchor is 'desktop', every published state has isMobile and
\* isTablet false, for any viewport width and any signals re-detected later.
C1_DesktopSticky ==
    initialDeviceType = "desktop" => ~published.isMobile /\ ~published.isTablet

\* a later evaluation of a desktop-anchored session at a width below 600
\* whose signals are now detected as a mobile, non-desktop device
C1_Witness ==
    /\ initialDeviceType = "desktop"
    /\ LaterEvaluation
    /\ env.innerWidth < 600
    /\ ~DetectDevice(variant, env).isDefinitelyDesktop
    /\ DetectDevice(variant, env).isMobileDevice
    /\ published.isDesktop

\* C2: within a session the anchor is written once, by the effect's first
\* evaluation, and no later step changes it or returns it to null.
C2_AnchorWrittenOnce ==
    [][session' = session =>
          /\ (initialDeviceType # "null" => initialDeviceType' = initialDeviceType)
          /\ (initialDeviceType = "null" /\ ran' => initialDeviceType' # "null")
          /\ (initialDeviceType' # initialDeviceType => lastEvent' = "mount")]_vars

\* a later evaluation whose signals would anchor 'desktop' leaves the anchor
\* 'mobile'
C2_Witness ==
    /\ initialDeviceType = "mobile"
    /\ LaterEvaluation
    /\ DetectDevice(variant, env).isDefinitelyDesktop

\* C3: while a non-desktop-anchored instance is active, the published flags
\* are those of the current width: below 600 mobile only, from 600 to 1199
\* tablet only, from 1200 neither; the two flags are never both true.
C3_WidthDecides ==
    /\ ~(published.isMobile /\ published.isTablet)
    /\ (phase = "active" /\ initialDeviceType \in NonDesktopAnchors) =>
          /\ published.isMobile = (env.innerWidth < 600)
          /\ published.isTablet = (env.innerWidth >= 600 /\ env.innerWidth < 1200)

\* the first evaluation anchors 'tablet' at a width below 600 and publishes
\* mobile
C3_Witness ==
    /\ initialDeviceType = "tablet"
    /\ lastEvent = "mount"
    /\ env.innerWidth < 600
    /\ published.isMobile
    /\ ~published.isTablet

\* C4 as stated: no later evaluation of a non-desktop-anchored session
\* reports the desktop category.
C4_NeverReportsDesktop ==
    (initialDeviceType \in NonDesktopAnchors /\ LaterEvaluation) => ~published.isDesktop

\* C4 as amended: a non-desktop anchor is never changed to 'desktop' (nor to
\* anything else) within the session, and a later evaluation of such a session
\* reports isDesktop exactly when the width is 1200 or more.
C4_NeverReanchoredDesktop ==
    /\ []((initialDeviceType \in NonDesktopAnchors /\ LaterEvaluation) =>
            published.isDesktop = (env.innerWidth >= 1200))
    /\ [][(initialDeviceType \in NonDesktopAnchors /\ session' = session) =>
            initialDeviceType' \in NonDesktopAnchors]_vars

\* a later evaluation of a non-desktop-anchored session that detects a
\* desktop at a width of 1200 or more: isDesktop is published, the anchor stays
C4_Witness ==
    /\ initialDeviceType \in NonDesktopAnchors
    /\ LaterEvaluation
    /\ env.innerWidth >= 1200
    /\ DetectDevice(variant, env).isDefinitelyDesktop
    /\ published.isDesktop

\* C5: whenever isDefinitelyDesktop is true, detectDevice returns
\* isMobileDevice false and isTabletDevice false.
C5_DesktopDominates ==
    DetectDevice(variant, env).isDefinitelyDesktop =>
        /\ ~DetectDevice(variant, env).isMobileDevice
        /\ ~DetectDevice(variant, env).isTabletDevice

\* an evaluation read signals that are desktop by CPU architecture alone and
\* that every later rule of both cascades would match
C5_Witness ==
    /\ ran
    /\ env.cpuArchitecture = "x86_64"
    /\ env.osName = "Android"
    /\ env.deviceType = "tablet"
    /\ Matches(env, "mobileA") /\ Matches(env, "mobileB")
    /\ DetectDevice(variant, env).isDefinitelyDesktop

\* C6: in every published state isMobileOrTablet = (isMobile or isTablet)
\* and isDesktop = not isMobileOrTablet.
C6_DerivedFlags ==
    /\ published.isMobileOrTablet = (published.isMobile \/ published.isTablet)
    /\ published.isDesktop = ~published.isMobileOrTablet

\* a published tablet: isMobile false, isTablet true
C6_Witness ==
    /\ ~published.isLoading
    /\ published.isTablet
    /\ ~published.isMobile
    /\ published.isMobileOrTablet

\* C7: isLoading is published true exactly until the first evaluation has
\* completed (the anchor is still null), and false in every state after it.
C7_LoadingOnlyBeforeFirstResult ==
    /\ published.isLoading = (initialDeviceType = "null")
    /\ published.isLoading = (phase = "rendered")

\* a later resize has been processed and isLoading is published false
C7_Witness ==
    /\ LaterEvaluation
    /\ lastEvent = "resize"
    /\ ~published.isLoading

\* C8: once loaded, at most one of isMobile/isTablet and exactly one of
\* isMobileOrTablet/isDesktop is true, and DeviceSpecificContent does not
\* render its default branch.
C8_ExactlyOneCategory ==
    ~published.isLoading =>
        /\ ~(published.isMobile /\ published.isTablet)
        /\ published.isMobileOrTablet # published.isDesktop
        /\ DeviceSpecificContent(published) \in {"mobile", "tablet", "desktop"}

\* an orientation change has been processed and the consumer renders the
\* tablet branch
C8_Witness ==
    /\ LaterEvaluation
    /\ lastEvent = "orientationchange"
    /\ DeviceSpecificContent(published) = "tablet"

\* C9: after teardown no listener of the instance is left, and no step runs
\* setDevice or changes the anchor, the cells or the published object; while
\* the instance is active every resize and orientation-change event runs
\* setDevice.
C9_ListenersScoped ==
    /\ [](phase # "active" => listeners = {})
    /\ [](phase = "active" => AddedListeners(session) \subseteq listeners)
    /\ []((phase = "active" /\ lastEvent \in EventTypes) => ran)
    /\ [][(phase = "torn" /\ phase' = "torn") =>
            /\ ~ran'
            /\ UNCHANGED <<initialDeviceType, state, published>>]_vars

\* a resize to a mobile width after teardown: setDevice did not run and the
\* mobile-anchored instance still publishes what it published at width 1200
C9_Witness ==
    /\ phase = "torn"
    /\ lastEvent = "resize"
    /\ ~ran
    /\ initialDeviceType = "mobile"
    /\ env.innerWidth < 600
    /\ ~published.isMobile

\* the four heuristics of the desktop determination as the claim states them
FourHeuristics(e) ==
    \/ (e.osName = "Windows" /\ ~Includes(UserAgentOf(e.userAgent), kw_touch))
    \/ (e.osName = "Mac OS" /\ e.touch = "none")
    \/ (e.osName = "Linux" /\ ~Includes(UserAgentOf(e.userAgent), kw_android))
    \/ e.cpuArchitecture \in {"amd64", "x86_64"}

\* C10 as stated: the isDefinitelyDesktop an evaluation has just computed is
\* the OR of the four heuristics, whatever the touch flag is.
C10_FourHeuristics ==
    ran => DetectDevice(variant, env).isDefinitelyDesktop = FourHeuristics(env)

\* C10 as amended: the rule set of part_001 is the OR of the four heuristics;
\* in the rule set of part_000 the Mac OS and CPU heuristics are the same, a
\* Windows host is also desktop when it is not touch-capable (even with
\* 'touch' in the user agent), and a Linux host is desktop only when it is
\* also not touch-capable.
C10_FourHeuristicsPerVariant ==
    LET d == DetectDevice(variant, env).isDefinitelyDesktop
        touchCapable == env.touch # "none"
        uaTouch == Includes(UserAgentOf(env.userAgent), kw_touch)
        uaAndroid == Includes(UserAgentOf(env.userAgent), kw_android)
    IN IF variant = "B" THEN d = FourHeuristics(env)
       ELSE IF env.cpuArchitecture \in {"amd64", "x86_64"} THEN d
       ELSE IF env.osName = "Windows" THEN d = (~uaTouch \/ ~touchCapable)
       ELSE IF env.osName = "Mac OS" THEN d = ~touchCapable
       ELSE IF env.osName = "Linux" THEN d = (~uaAndroid /\ ~touchCapable)
       ELSE ~d

\* the first evaluation under the rule set of part_000 reads a touch-capable
\* Linux host without 'android' in its user agent and does not anchor desktop
C10_Witness ==
    /\ variant = "A"
    /\ lastEvent = "mount"
    /\ env.osName = "Linux"
    /\ env.touch # "none"
    /\ ~Includes(UserAgentOf(env.userAgent), kw_android)
    /\ env.cpuArchitecture = "undefined"
    /\ initialDeviceType # "desktop"

\* the last step was the effect's first evaluation, so env is exactly what
\* that evaluation read
FirstEvaluation == ran /\ lastEvent = "mount"

\* C11: the first evaluation sets the anchor to 'desktop' if
\* isDefinitelyDesktop, else 'tablet' if isTabletDevice, else 'mobile'; with
\* both isMobileDevice and isTabletDevice true it is 'tablet'; after the first
\* evaluation the anchor is never unset.
C11_FirstAnchor ==
    LET det == DetectDevice(variant, env)
    IN /\ (phase # "rendered") => initialDeviceType # "null"
       /\ FirstEvaluation =>
             /\ det.isDefinitelyDesktop => initialDeviceType = "desktop"
             /\ (~det.isDefinitelyDesktop /\ det.isTabletDevice) =>
                    initialDeviceType = "tablet"
             /\ (~det.isDefinitelyDesktop /\ ~det.isTabletDevice) =>
                    initialDeviceType = "mobile"

\* a first evaluation whose classifier result has both flags true anchors
\* 'tablet'
C11_Witness ==
    /\ FirstEvaluation
    /\ DetectDevice(variant, env).isMobileDevice
    /\ DetectDevice(variant, env).isTabletDevice
    /\ initialDeviceType = "tablet"

\* the raw user agent matches the e-reader hardware pattern, KF + letters
EReader(e) == TestFollowedBy(UserAgentOf(e.userAgent), kw_kf, LowerLetters)

EReaderNames == {n \in UserAgentNames : EReader([userAgent |-> n])}

\* C12 as stated: for non-desktop signals with an e-reader user agent the
\* tablet determination is true at every width, and a first evaluation at a
\* width below 600 anchors 'tablet' and publishes mobile.
C12_EReaderTablet ==
    (FirstEvaluation /\ env.userAgent \in EReaderNames
        /\ ~DetectDevice(variant, env).isDefinitelyDesktop) =>
        /\ DetectDevice(variant, env).isTabletDevice
        /\ initialDeviceType = "tablet"
        /\ env.innerWidth < 600 => (published.isMobile /\ ~published.isTablet)

\* C12 as amended: under the rule set of part_000 the statement holds; the
\* rule set of part_001 has no e-reader pattern, so there the tablet
\* determination of such signals is true only when another of its tablet
\* rules holds, and the first evaluation anchors 'tablet' then and 'mobile'
\* otherwise; under both, the result published at a width below 600 is mobile.
C12_EReaderTabletPerVariant ==
    LET det == DetectDevice(variant, env)
        otherRule ==
            \/ env.deviceType = "tablet"
            \/ TestAny(UserAgentOf(env.userAgent),
                       {kw_tablet, kw_ipad, kw_playbook, kw_silk})
            \/ (env.osName = "Android" /\ env.innerWidth >= 600 /\ env.innerWidth < 1200)
            \/ (env.osName = "Windows" /\ Includes(UserAgentOf(env.userAgent), kw_touch))
            \/ (env.innerWidth >= 600 /\ env.innerWidth < 1200)
    IN (env.userAgent \in EReaderNames /\ ~det.isDefinitelyDesktop) =>
          /\ variant = "A" => det.isTabletDevice
          /\ variant = "B" => det.isTabletDevice = otherRule
          /\ FirstEvaluation =>
                /\ initialDeviceType = (IF det.isTabletDevice THEN "tablet" ELSE "mobile")
                /\ env.innerWidth < 600 => (published.isMobile /\ ~published.isTablet)

\* under the rule set of part_000, a first evaluation of an e-reader with no
\* other tablet signal at a width below 600 anchors 'tablet' and publishes
\* mobile
C12_Witness ==
    /\ variant = "A"
    /\ FirstEvaluation
    /\ env.userAgent \in EReaderNames
    /\ env.deviceType = "undefined"
    /\ env.innerWidth < 600
    /\ initialDeviceType = "tablet"
    /\ published.isMobile
    /\ ~published.isTablet

\* the user agents holding none of the keywords only one rule set tests
SharedKeywordNames ==
    {n \in UserAgentNames :
        /\ ~TestAny(UserAgentOf(n), {kw_mobi, kw_wpdesktop, kw_samsung, kw_sm_t,
                                     kw_kindle, kw_galaxy_tab})
        /\ ~TestFollowedBy(UserAgentOf(n), kw_kf, LowerLetters)}

OtherVariant == IF variant = "A" THEN "B" ELSE "A"

\* the other rule set gives the same classifier result on env and, at a
\* first evaluation, the same anchor and cells
SameAsOtherVariant ==
    /\ DetectDevice(variant, env) = DetectDevice(OtherVariant, env)
    /\ FirstEvaluation =>
          /\ SetDevice(OtherVariant, "null", InitialState, env).anchor = initialDeviceType
          /\ SetDevice(OtherVariant, "null", InitialState, env).state = state

\* C14 as stated: for signals whose OS is not Windows and whose user agent
\* holds none of the one-variant keywords, an evaluation gives the same
\* result under both rule sets.
C14_VariantsAgree ==
    (ran /\ env.osName # "Windows" /\ env.userAgent \in SharedKeywordNames) =>
        SameAsOtherVariant

\* C14 as amended: the rule sets also differ in the touch check of the Linux
\* desktop rule; for signals whose OS is not Windows and is not Linux on a
\* touch-capable host, and whose user agent holds none of the one-variant
\* keywords, both rule sets give the same result.
C14_VariantsAgreeOffLinuxTouch ==
    (/\ env.osName # "Windows"
     /\ ~(env.osName = "Linux" /\ env.touch # "none")
     /\ env.userAgent \in SharedKeywordNames) =>
        SameAsOtherVariant

\* a first evaluation of in-scope signals for which the mobile keyword rule
\* and a tablet rule both hold
C14_Witness ==
    /\ FirstEvaluation
    /\ env.osName = "Linux"
    /\ env.touch = "none"
    /\ env.userAgent \in SharedKeywordNames
    /\ DetectDevice(variant, env).isMobileDevice
    /\ DetectDevice(variant, env).isTabletDevice
    /\ initialDeviceType = "tablet"

\* C16: while the anchor is unset the hook publishes isLoading true with
\* isMobile and isTablet false, hence isDesktop true and isMobileOrTablet
\* false, whatever the device is, and the consumer renders its placeholder.
C16_DesktopShapedWhileLoading ==
    initialDeviceType = "null" =>
        /\ published.isLoading
        /\ ~published.isMobile
        /\ ~published.isTablet
        /\ published.isDesktop
        /\ ~published.isMobileOrTablet
        /\ DeviceSpecificContent(published) = "Loading"

\* before the first evaluation of a device that will anchor 'mobile' the
\* hook publishes isDesktop true
C16_Witness ==
    /\ phase = "rendered"
    /\ initialDeviceType = "null"
    /\ AnchorOf("null", DetectDevice(variant, env)) = "mobile"
    /\ published.isDesktop
    /\ published.isLoading

\* C13: two sessions that receive the same sequence of viewport widths, one
\* on any signals and one on reference non-desktop signals, publish the same
\* object at every step whenever the first is not anchored 'desktop'; so any
\* two non-desktop-anchored sessions publish the same sequence.
C13_WidthOnly ==
    /\ twin.anchor # "desktop"
    /\ twin.env.innerWidth = env.innerWidth
    /\ initialDeviceType # "desktop" => published = twin.published

\* a later evaluation of a tablet-anchored session with a brand match and of
\* a mobile-anchored session with other keywords and another device type:
\* both publish mobile
C13_Witness ==
    /\ LaterEvaluation
    /\ initialDeviceType = "tablet"
    /\ twin.anchor = "mobile"
    /\ Matches(env, "samsung")
    /\ ~Matches(twin.env, "samsung")
    /\ env.userAgent # twin.env.userAgent
    /\ env.deviceType # twin.env.deviceType
    /\ published.isMobile
    /\ twin.published.isMobile

\* C15: a new activation after a teardown starts with the anchor unset, and
\* its first evaluation decides the anchor from the signals of that moment,
\* whatever the previous instance's anchor was; a second instance in the
\* same page has its own anchor, written only by its own first evaluation,
\* and its activation does not touch the first instance's anchor.
C15_AnchorPerSession ==
    /\ [](FirstEvaluation =>
            initialDeviceType = AnchorOf("null", DetectDevice(variant, env)))
    /\ [](phase = "rendered" => initialDeviceType = "null")
    /\ [][/\ session' # session => initialDeviceType' = "null"
          /\ twin.phase' # twin.phase =>
                /\ initialDeviceType' = initialDeviceType
                /\ twin.anchor' = AnchorOf("null", DetectDevice(variant, env))
          /\ twin.phase' = twin.phase => twin.anchor' = twin.anchor]_vars

\* the second session's first evaluation anchors 'mobile' after a session
\* anchored 'desktop', while the coexisting instance is anchored 'tablet'
C15_Witness ==
    /\ session = 2
    /\ FirstEvaluation
    /\ previousAnchor = "desktop"
    /\ initialDeviceType = "mobile"
    /\ twin.phase = "active"
    /\ twin.anchor = "tablet"

====
